---- MODULE Spec2Model ----
(***************************************************************************)
(* Model of adapters/lifestreet/lifestreet.go: LifestreetAdapter.Call, the *)
(* fan-out coordinator, with the goroutines it spawns, callOne and         *)
(* MakeOpenRtbBidRequest.                                                  *)
(*                                                                         *)
(* Go indices are kept 0-based (i, reqIndex, goroutine ids); a TLA+        *)
(* sequence standing for a Go slice s is read as s[i + 1].                 *)
(***************************************************************************)
EXTENDS Integers, Sequences, FiniteSets, TLC

\* Largest number of ad units in bidder.AdUnits.
MaxUnits == 2
\* Longest slot_tag string.
MaxTagLen == 3

(***************************************************************************)
(* Values                                                                  *)
(***************************************************************************)
\* Go nil for *pbs.PBSBid and for error.
Nil == [nil |-> TRUE]

Err(kind) == [kind |-> kind]

\* fmt.Errorf("HTTP status %d; body: %s", ...), line 59.
RemoteError(status, body) == [kind |-> "HTTP status", status |-> status, body |-> body]

\* The zero bytes.Buffer of make([]bytes.Buffer, ...), line 110.
EmptyBuf == [unit |-> -1, mtype |-> "none"]

\* The zero adapters.CallOneResult (named result of callOne, line 37).
ZeroResult == [StatusCode |-> 0, ResponseBody |-> Nil, Bid |-> Nil, Error |-> Nil]

\* Characters of a slot_tag: a letter and the delimiter of line 123.
TagChars == {"a", "."}

RECURSIVE SeqsUpTo(_, _)
SeqsUpTo(S, n) ==
    IF n = 0 THEN {<<>>}
    ELSE LET shorter == SeqsUpTo(S, n - 1)
         IN  shorter \cup {Append(s, c) : s \in {t \in shorter : Len(t) = n - 1}, c \in S}

Tags == SeqsUpTo(TagChars, MaxTagLen)

\* unit.Params: a blob json.Unmarshal cannot decode (absent, not JSON), or
\* an object whose slot_tag is a string (<<>> when the key is missing or "").
Blobs == {[decodable |-> FALSE, slot_tag |-> <<>>]}
         \cup {[decodable |-> TRUE, slot_tag |-> t] : t \in Tags}

\* params when no loop iteration is running (the variable is out of scope).
NoParams == [SlotTag |-> <<>>, inScope |-> FALSE]

(***************************************************************************)
(* Slot parser, lines 113-128                                              *)
(***************************************************************************)
\* json.Unmarshal(unit.Params, &params), line 114.
Unmarshal(blob) ==
    IF blob.decodable
    THEN [err |-> Nil, SlotTag |-> blob.slot_tag]
    ELSE [err |-> Err("UnmarshalError"), SlotTag |-> <<>>]

\* strings.Split(s, sep) for a one-character sep: the substrings between
\* the separators, in order; one more than the number of separators.
RECURSIVE SplitFrom(_, _, _, _)
SplitFrom(s, sep, k, cur) ==
    IF k > Len(s) THEN <<cur>>
    ELSE IF s[k] = sep THEN <<cur>> \o SplitFrom(s, sep, k + 1, <<>>)
    ELSE SplitFrom(s, sep, k + 1, Append(cur, s[k]))

Split(s, sep) == SplitFrom(s, sep, 1, <<>>)

\* Number of segments the slot tag must split into, line 124.
SlotTagParts == 2

\* Lines 113-128: the error Call returns for the blob, Nil when accepted.
SlotParserErr(blob) ==
    LET u == Unmarshal(blob)
    IN  IF u.err # Nil THEN u.err
        ELSE IF u.SlotTag = <<>> THEN Err("BadInput: Missing slot_tag param")
        ELSE IF Len(Split(u.SlotTag, ".")) # SlotTagParts
             THEN Err("BadInput: Invalid slot_tag param")
        ELSE Nil

ErrKind(e) == IF e = Nil THEN "nil" ELSE e.kind

\* The ways the slot parser can treat a blob: "nil" (accepted) and the
\* kinds of error it returns.
CfgClasses == {ErrKind(SlotParserErr(b)) : b \in Blobs}

(***************************************************************************)
(* Request builder, lines 86-107                                           *)
(***************************************************************************)
\* What adapters.MakeOpenRTBGeneric hands back for one media type (line 87):
\* an error, a request without impressions, or a request with impressions.
\* Its arguments (req, bidder, the adapter name, the media type) are the same
\* in every iteration of the loop of line 112, so is what it hands back.
MediaTypes == {"banner", "video"}

GenericOutcomes == {"error", "noimps", "imps"}

\* Lines 86-107. The built request is identified by the one impression kept
\* (unitInd) and its media type; TagID and the other fields ride along.
MakeOpenRtbBidRequest(gen, mtype, unitInd) ==
    IF gen = "error" THEN [req |-> EmptyBuf, err |-> Err("GenericError")]
    ELSE IF gen = "imps" THEN [req |-> [unit |-> unitInd, mtype |-> mtype], err |-> Nil]
    ELSE [req |-> EmptyBuf, err |-> Err("BadInput: No supported impressions")]

\* json.NewEncoder(&buf).Encode(v), lines 133 and 143: writes the encoding,
\* or fails and writes nothing.
EncodeOutcomes == {"ok", "error"}

Encode(enc, v) ==
    IF enc = "ok" THEN [buf |-> v, err |-> Nil]
    ELSE [buf |-> EmptyBuf, err |-> Err("EncodeError")]

(***************************************************************************)
(* Transport caller, lines 37-84                                           *)
(***************************************************************************)
\* A response body: bytes that are not JSON, or a bid response with its
\* seat-bid list, each seat a list of bids.
NotJSON == [json |-> FALSE, SeatBid |-> <<>>]

JSONBody(seats) == [json |-> TRUE, SeatBid |-> seats]

WireBid(imp) == [ImpID |-> imp]

\* Impression ids the endpoint answers with; 0 names no ad unit.
ImpIDs == {0, 1, 2}

\* Responses of the endpoint.
Responses ==
    {[StatusCode |-> 204, Body |-> JSONBody(<<>>)],
     [StatusCode |-> 500, Body |-> NotJSON]}
    \cup {[StatusCode |-> 200, Body |-> JSONBody(<<<<WireBid(k)>>>>)] : k \in ImpIDs}

\* A transport call that does not look at ctx.
DoOutcomesIgnoringCtx(done) ==
    {[e |-> Err("NetError"), resp |-> Nil]} \cup {[e |-> Nil, resp |-> r] : r \in Responses}

\* ctxhttp.Do(ctx, client, httpReq), line 42: an error, or a response. Once
\* ctx is done the call yields ctx.Err().
DoOutcomes(done) ==
    IF done THEN {[e |-> Err("ContextError"), resp |-> Nil]}
    ELSE {[e |-> Err("NetError"), resp |-> Nil]}
         \cup {[e |-> Nil, resp |-> r] : r \in Responses}

\* Lines 73-82.
MakeBid(bid) == [AdUnitCode |-> bid.ImpID, BidderCode |-> "", BidID |-> ""]

\* A callOne without the early return of lines 54-56.
callOneWithout204(do) ==
    IF do.e # Nil THEN [result |-> ZeroResult, err |-> do.e]
    ELSE
    LET body == do.resp.Body
        r1   == [ZeroResult EXCEPT !.ResponseBody = body,
                                   !.StatusCode = do.resp.StatusCode]
    IN  IF do.resp.StatusCode # 200
        THEN [result |-> r1, err |-> RemoteError(do.resp.StatusCode, body)]
        ELSE IF ~body.json THEN [result |-> r1, err |-> Err("DecodeError")]
        ELSE IF Len(body.SeatBid) = 0 \/ Len(body.SeatBid[1]) = 0
             THEN [result |-> r1, err |-> Nil]
        ELSE [result |-> [r1 EXCEPT !.Bid = MakeBid(body.SeatBid[1][1])],
              err |-> Nil]

\* A callOne that turns the last bid of the last seat into the Bid.
callOneLastBid(do) ==
    IF do.e # Nil THEN [result |-> ZeroResult, err |-> do.e]
    ELSE
    LET body == do.resp.Body
        r1   == [ZeroResult EXCEPT !.ResponseBody = body,
                                   !.StatusCode = do.resp.StatusCode]
    IN  IF do.resp.StatusCode = 204 THEN [result |-> r1, err |-> Nil]
        ELSE IF do.resp.StatusCode # 200
             THEN [result |-> r1, err |-> RemoteError(do.resp.StatusCode, body)]
        ELSE IF ~body.json THEN [result |-> r1, err |-> Err("DecodeError")]
        ELSE IF Len(body.SeatBid) = 0 \/ Len(body.SeatBid[1]) = 0
             THEN [result |-> r1, err |-> Nil]
        ELSE LET seat == body.SeatBid[Len(body.SeatBid)]
             IN  [result |-> [r1 EXCEPT !.Bid = MakeBid(seat[Len(seat)])],
                  err |-> Nil]

\* A callOne that takes only the 5xx statuses for failures.
callOneFailsFrom500(do) ==
    IF do.e # Nil THEN [result |-> ZeroResult, err |-> do.e]
    ELSE
    LET body == do.resp.Body
        r1   == [ZeroResult EXCEPT !.ResponseBody = body,
                                   !.StatusCode = do.resp.StatusCode]
    IN  IF do.resp.StatusCode = 204 THEN [result |-> r1, err |-> Nil]
        ELSE IF do.resp.StatusCode >= 500
             THEN [result |-> r1, err |-> RemoteError(do.resp.StatusCode, body)]
        ELSE IF ~body.json THEN [result |-> r1, err |-> Err("DecodeError")]
        ELSE IF Len(body.SeatBid) = 0 \/ Len(body.SeatBid[1]) = 0
             THEN [result |-> r1, err |-> Nil]
        ELSE [result |-> [r1 EXCEPT !.Bid = MakeBid(body.SeatBid[1][1])],
              err |-> Nil]

\* Lines 37-84: the pair (result, err) callOne returns.
callOne(do) ==
    IF do.e # Nil THEN [result |-> ZeroResult, err |-> do.e]
    ELSE
    LET body == do.resp.Body
        r1   == [ZeroResult EXCEPT !.ResponseBody = body,
                                   !.StatusCode = do.resp.StatusCode]
    IN  IF do.resp.StatusCode = 204 THEN [result |-> r1, err |-> Nil]
        ELSE IF do.resp.StatusCode # 200
             THEN [result |-> r1, err |-> RemoteError(do.resp.StatusCode, body)]
        ELSE IF ~body.json THEN [result |-> r1, err |-> Err("DecodeError")]
        ELSE IF Len(body.SeatBid) = 0 \/ Len(body.SeatBid[1]) = 0
             THEN [result |-> r1, err |-> Nil]
        ELSE [result |-> [r1 EXCEPT !.Bid = MakeBid(body.SeatBid[1][1])],
              err |-> Nil]

(***************************************************************************)
(* The bidder: ad-unit table                                               *)
(***************************************************************************)
BidderCode == "lifestreet"

\* The auction-assigned bid ids of the ad units, by position.
BidIDs == <<"bid-1", "bid-2", "bid-3", "bid-4">>

\* Ad unit k (1-based position) carries unit code k.
\* bidder.LookupBidID(code): the bid id of the unit with that code, "" if
\* there is none.
LookupBidID(n, code) == IF code \in 1..n THEN BidIDs[code] ELSE ""

\* A goroutine that reports the unknown unit and still sends the Bid.
TaskResultErrorWithBid(n, out) ==
    LET r0 == [out.result EXCEPT !.Error = out.err]
    IN  IF r0.Bid # Nil
        THEN LET bid == [r0.Bid EXCEPT !.BidderCode = BidderCode,
                                       !.BidID = LookupBidID(n, r0.Bid.AdUnitCode)]
             IN  IF bid.BidID = ""
                 THEN [r0 EXCEPT !.Error = Err("BadServerResponse: Unknown ad unit code"),
                                 !.Bid = bid]
                 ELSE [r0 EXCEPT !.Bid = bid]
        ELSE r0

\* A goroutine that enriches the Bid but never drops it.
TaskResultKeepsBid(n, out) ==
    LET r0 == [out.result EXCEPT !.Error = out.err]
    IN  IF r0.Bid # Nil
        THEN [r0 EXCEPT !.Bid = [r0.Bid EXCEPT !.BidderCode = BidderCode,
                                               !.BidID = LookupBidID(n, r0.Bid.AdUnitCode)]]
        ELSE r0

\* Lines 154-165: what the goroutine puts on the channel.
TaskResult(n, out) ==
    LET r0 == [out.result EXCEPT !.Error = out.err]
    IN  IF r0.Bid # Nil
        THEN LET bid == [r0.Bid EXCEPT !.BidderCode = BidderCode,
                                       !.BidID = LookupBidID(n, r0.Bid.AdUnitCode)]
             IN  IF bid.BidID = ""
                 THEN [r0 EXCEPT !.Error = Err("BadServerResponse: Unknown ad unit code"),
                                 !.Bid = Nil]
                 ELSE [r0 EXCEPT !.Bid = bid]
        ELSE r0

(***************************************************************************)
(* State of one invocation of Call, lines 109-196                          *)
(***************************************************************************)
VARIABLES
    nUnits,     \* len(bidder.AdUnits)
    unitCfg,    \* per ad unit, how the slot parser treats its unit.Params
    isDebug,    \* req.IsDebug
    gen,        \* per media type, what MakeOpenRTBGeneric yields for (req, bidder)
    ctxDone,    \* ctx is cancelled or past its deadline
    pc,         \* where the coordinator stands in Call
    i,          \* index of the loop the coordinator is in (lines 112, 152, 173)
    params,     \* params of the loop iteration, line 113
    requests,   \* the flat request sequence, line 110
    reqIndex,   \* line 111
    task,       \* the goroutines of lines 153-167, by the index that spawned them
    bids,       \* line 172
    err,        \* line 170
    debug,      \* bidder.Debug
    recv,       \* goroutines in the order their results left the channel
    ret,        \* what Call returned
    solo        \* one callOne invocation and its goroutine, taken on their own

vars == <<nUnits, unitCfg, isDebug, gen, ctxDone, pc, i, params, requests, reqIndex,
          task, bids, err, debug, recv, ret, solo>>

\* A goroutine not spawned yet.
IdleTask == [st |-> "idle", reqJSON |-> EmptyBuf, result |-> ZeroResult]

NoRet == [bids |-> <<>>, err |-> Nil]

\* No invocation is being looked at on its own.
NoSolo == [st |-> "none",
           do |-> [e |-> Nil, resp |-> Nil],
           out |-> [result |-> ZeroResult, err |-> Nil],
           result |-> ZeroResult]

Tasks == 0..(nUnits - 1)

Init ==
    /\ nUnits \in 0..MaxUnits
    /\ unitCfg \in [1..nUnits -> CfgClasses]
    /\ isDebug \in BOOLEAN
    /\ gen \in [MediaTypes -> GenericOutcomes]
    /\ ctxDone = FALSE
    /\ pc = "build"
    /\ i = 0
    /\ params = NoParams
    /\ requests = [k \in 1..(nUnits * 2) |-> EmptyBuf]
    /\ reqIndex = 0
    /\ task = [g \in Tasks |-> IdleTask]
    /\ bids = <<>>
    /\ err = Nil
    /\ debug = <<>>
    /\ recv = <<>>
    /\ ret = NoRet
    /\ solo = NoSolo

\* return b, e
Return(b, e) ==
    /\ pc' = "done"
    /\ ret' = [bids |-> b, err |-> e]

buildVars == <<requests, reqIndex>>
drainVars == <<task, bids, err, debug, recv>>
inputVars == <<nUnits, unitCfg, isDebug, gen, ctxDone, solo>>

(***************************************************************************)
(* Build phase, lines 112-149                                              *)
(***************************************************************************)
\* A parse step that records nothing on a malformed blob and carries on.
ParseUnitNoReturn ==
    /\ pc = "build"
    /\ i < nUnits
    /\ \E blob \in {b \in Blobs : ErrKind(SlotParserErr(b)) = unitCfg[i + 1]} :
         params' = [SlotTag |-> Unmarshal(blob).SlotTag, inScope |-> TRUE]
    /\ pc' = "banner"
    /\ UNCHANGED <<inputVars, i, buildVars, drainVars, ret>>

\* Lines 112-128: the next unit's configuration is decoded and validated.
ParseUnit ==
    /\ pc = "build"
    /\ i < nUnits
    /\ \E blob \in {b \in Blobs : ErrKind(SlotParserErr(b)) = unitCfg[i + 1]} :
         LET e == SlotParserErr(blob)
             p == [SlotTag |-> Unmarshal(blob).SlotTag, inScope |-> TRUE]
         IN  /\ params' = p
             /\ IF e # Nil
                THEN Return(<<>>, e)
                ELSE /\ pc' = "banner"
                     /\ UNCHANGED ret
    /\ UNCHANGED <<inputVars, i, buildVars, drainVars>>

\* A build step that leaves a free slot after each request it writes.
BuildOneSkipping(mtype, enc) ==
    LET b == MakeOpenRtbBidRequest(gen[mtype], mtype, i)
        w == Encode(enc, b.req)
    IN  /\ IF b.err = Nil
           THEN /\ requests' = [requests EXCEPT ![reqIndex + 1] = w.buf]
                /\ reqIndex' = reqIndex + 2
                /\ IF w.err # Nil
                   THEN Return(<<>>, w.err)
                   ELSE /\ pc' = IF mtype = "banner" THEN "video" ELSE "build"
                        /\ UNCHANGED ret
           ELSE /\ pc' = IF mtype = "banner" THEN "video" ELSE "build"
                /\ UNCHANGED <<requests, reqIndex, ret>>

\* Lines 131-138 (mtype banner) and 141-148 (mtype video): build, encode
\* into requests[reqIndex], advance reqIndex.
BuildOne(mtype, enc) ==
    LET b == MakeOpenRtbBidRequest(gen[mtype], mtype, i)
        w == Encode(enc, b.req)
    IN  /\ IF b.err = Nil
           THEN /\ requests' = [requests EXCEPT ![reqIndex + 1] = w.buf]
                /\ reqIndex' = reqIndex + 1
                /\ IF w.err # Nil
                   THEN Return(<<>>, w.err)
                   ELSE /\ pc' = IF mtype = "banner" THEN "video" ELSE "build"
                        /\ UNCHANGED ret
           ELSE /\ pc' = IF mtype = "banner" THEN "video" ELSE "build"
                /\ UNCHANGED <<requests, reqIndex, ret>>

Banner ==
    /\ pc = "banner"
    /\ \E enc \in EncodeOutcomes : BuildOne("banner", enc)
    /\ UNCHANGED <<inputVars, i, params, drainVars>>

Video ==
    /\ pc = "video"
    /\ \E enc \in EncodeOutcomes : BuildOne("video", enc)
    /\ i' = IF pc' = "build" THEN i + 1 ELSE i
    /\ UNCHANGED <<inputVars, params, drainVars>>

\* Line 112 with the range exhausted: on to line 151.
BuildExit ==
    /\ pc = "build"
    /\ i >= nUnits
    /\ pc' = "dispatch"
    /\ i' = 0
    /\ params' = NoParams
    /\ UNCHANGED <<inputVars, buildVars, drainVars, ret>>

(***************************************************************************)
(* Dispatch, lines 151-168                                                 *)
(***************************************************************************)
\* Number of goroutines spawned: the range of line 152.
NumDispatch == nUnits

\* Line 153 and 167: go func(bidder, requests[i]); the goroutine owns a copy
\* of the buffer.
Dispatch ==
    /\ pc = "dispatch"
    /\ i < NumDispatch
    /\ task' = [task EXCEPT ![i] = [st |-> "calling",
                                    reqJSON |-> requests[i + 1],
                                    result |-> ZeroResult]]
    /\ i' = i + 1
    /\ UNCHANGED <<inputVars, pc, params, buildVars, bids, err, debug, recv, ret>>

\* Line 152 with the range exhausted: on to line 170.
DispatchExit ==
    /\ pc = "dispatch"
    /\ i >= NumDispatch
    /\ pc' = "drain"
    /\ i' = 0
    /\ UNCHANGED <<inputVars, params, buildVars, drainVars, ret>>

\* Lines 154-165 in goroutine g: callOne returns and the result is made
\* ready for the channel.
CallOneStep(g) ==
    /\ task[g].st = "calling"
    /\ \E do \in DoOutcomes(ctxDone) :
         task' = [task EXCEPT ![g].st = "sending",
                              ![g].result = TaskResult(nUnits, callOne(do))]
    /\ UNCHANGED <<inputVars, pc, i, params, buildVars, bids, err, debug, recv, ret>>

(***************************************************************************)
(* Drain, lines 170-196                                                    *)
(***************************************************************************)
\* A drain loop that waits for one result more than was dispatched.
NumDrainOneMore == nUnits + 1

\* Number of results the coordinator takes from the channel: line 173.
NumDrain == nUnits

URI == "https://prebid.s2s.lfstmedia.com/adrequest"

\* A collection that keeps the first Bid received and no other.
CollectBidFirstOnly(bs, result) ==
    IF result.Bid # Nil /\ bs = <<>> THEN <<result.Bid>> ELSE bs

\* A collection that puts each new Bid in front.
CollectBidInFront(bs, result) == IF result.Bid # Nil THEN <<result.Bid>> \o bs ELSE bs

\* Lines 175-177.
CollectBid(bs, result) == IF result.Bid # Nil THEN Append(bs, result.Bid) ELSE bs

\* A trace that is written for failed calls only.
CollectDebugOfFailures(dbg, result, body) ==
    IF isDebug /\ result.Error # Nil
    THEN Append(dbg, [RequestURI |-> URI,
                      RequestBody |-> body,
                      StatusCode |-> result.StatusCode,
                      ResponseBody |-> result.ResponseBody])
    ELSE dbg

\* Lines 178-186.
CollectDebug(dbg, result, body) ==
    IF isDebug
    THEN Append(dbg, [RequestURI |-> URI,
                      RequestBody |-> body,
                      StatusCode |-> result.StatusCode,
                      ResponseBody |-> result.ResponseBody])
    ELSE dbg

\* An error slot that keeps the first error instead of the last.
CollectErrFirst(e, result) == IF e = Nil /\ result.Error # Nil THEN result.Error ELSE e

\* Lines 187-189.
CollectErr(e, result) == IF result.Error # Nil THEN result.Error ELSE e

\* A receive that leaves the sender where it was, its result still on offer.
ReceiveNoHandOff(g) ==
    /\ pc = "drain"
    /\ i < NumDrain
    /\ task[g].st = "sending"
    /\ bids' = CollectBid(bids, task[g].result)
    /\ debug' = CollectDebug(debug, task[g].result, requests[i + 1])
    /\ err' = CollectErr(err, task[g].result)
    /\ recv' = Append(recv, g)
    /\ i' = i + 1
    /\ UNCHANGED <<inputVars, task, pc, params, buildVars, ret>>

\* Lines 166 and 174-189: goroutine g's send on the unbuffered channel meets
\* the coordinator's receive of iteration i.
Receive(g) ==
    /\ pc = "drain"
    /\ i < NumDrain
    /\ task[g].st = "sending"
    /\ task' = [task EXCEPT ![g].st = "done"]
    /\ bids' = CollectBid(bids, task[g].result)
    /\ debug' = CollectDebug(debug, task[g].result, requests[i + 1])
    /\ err' = CollectErr(err, task[g].result)
    /\ recv' = Append(recv, g)
    /\ i' = i + 1
    /\ UNCHANGED <<inputVars, pc, params, buildVars, ret>>

\* A reduction that lets any recorded error win over the bids.
FinalResultErrorWins(bs, e) ==
    IF e # Nil THEN [bids |-> <<>>, err |-> e] ELSE [bids |-> bs, err |-> Nil]

\* Lines 192-195.
FinalResult(bs, e) ==
    IF Len(bs) = 0 THEN [bids |-> <<>>, err |-> e] ELSE [bids |-> bs, err |-> Nil]

\* Line 173 with the loop condition false, then lines 192-195.
Finish ==
    /\ pc = "drain"
    /\ i >= NumDrain
    /\ Return(FinalResult(bids, err).bids, FinalResult(bids, err).err)
    /\ UNCHANGED <<inputVars, i, params, buildVars, drainVars>>

\* The caller cancels ctx, or its deadline passes. Only ctxhttp.Do (line 42)
\* reads ctx, so a cancellation before line 151 shows as one at line 151.
Cancel ==
    /\ pc \in {"dispatch", "drain"}
    /\ ~ctxDone
    /\ ctxDone' = TRUE
    /\ UNCHANGED <<nUnits, unitCfg, isDebug, gen, solo, pc, i, params, buildVars,
                   drainVars, ret>>

Coordinator ==
    \/ ParseUnit
    \/ Banner
    \/ Video
    \/ BuildExit
    \/ Dispatch
    \/ DispatchExit
    \/ \E g \in Tasks : Receive(g)
    \/ Finish

Next ==
    \/ Coordinator
    \/ \E g \in Tasks : CallOneStep(g)
    \/ Cancel

Spec == Init /\ [][Next]_vars

\* The Go scheduler runs every runnable goroutine, and every callOne
\* returns: the coordinator keeps taking steps, and so do the spawned
\* goroutines (each has the one step, so fairness of their union is
\* fairness of each).
FairSpec ==
    /\ Spec
    /\ WF_vars(Coordinator)
    /\ WF_vars(\E g \in Tasks : CallOneStep(g))

(***************************************************************************)
(* callOne and the goroutine around it on their own, over every shape of   *)
(* response: lines 37-84 and 154-166                                       *)
(***************************************************************************)
\* Bid lists of a seat, and seat-bid lists: empty, one or two entries.
SeatShapes ==
    {<<>>} \cup {<<WireBid(a)>> : a \in ImpIDs}
           \cup {<<WireBid(a), WireBid(b)>> : a \in ImpIDs, b \in ImpIDs}

SeatBidShapes ==
    {<<>>} \cup {<<s>> : s \in SeatShapes}
           \cup {<<s, <<WireBid(b)>>>> : s \in SeatShapes, b \in ImpIDs}

\* Every status the code tells apart (200, 204, others) with every body.
AllResponses ==
    {[StatusCode |-> c, Body |-> b] :
        c \in {200, 204, 404, 500},
        b \in {NotJSON} \cup {JSONBody(sb) : sb \in SeatBidShapes}}

AllDoOutcomes ==
    {[e |-> Err("NetError"), resp |-> Nil]} \cup {[e |-> Nil, resp |-> r] : r \in AllResponses}

\* A goroutine of lines 153-167 about to call callOne, ctxhttp.Do having
\* its outcome in store; the coordinator is left out.
CallOneInit ==
    /\ nUnits \in 0..MaxUnits
    /\ unitCfg = [k \in 1..nUnits |-> "nil"]
    /\ isDebug = FALSE
    /\ gen = [m \in MediaTypes |-> "imps"]
    /\ ctxDone = FALSE
    /\ pc = "callOne"
    /\ i = 0
    /\ params = NoParams
    /\ requests = [k \in 1..(nUnits * 2) |-> EmptyBuf]
    /\ reqIndex = 0
    /\ task = [g \in Tasks |-> IdleTask]
    /\ bids = <<>>
    /\ err = Nil
    /\ debug = <<>>
    /\ recv = <<>>
    /\ ret = NoRet
    /\ \E do \in AllDoOutcomes : solo = [NoSolo EXCEPT !.st = "calling", !.do = do]

mainVars == <<nUnits, unitCfg, isDebug, gen, ctxDone, pc, i, params, requests,
              reqIndex, task, bids, err, debug, recv, ret>>

\* Line 154: callOne returns.
SoloCallOne ==
    /\ solo.st = "calling"
    /\ solo' = [solo EXCEPT !.st = "returned", !.out = callOne(solo.do)]
    /\ UNCHANGED mainVars

\* Lines 155-166: the goroutine settles its result and offers it to the
\* channel.
SoloSend ==
    /\ solo.st = "returned"
    /\ solo' = [solo EXCEPT !.st = "sending", !.result = TaskResult(nUnits, solo.out)]
    /\ UNCHANGED mainVars

CallOneNext == SoloCallOne \/ SoloSend

CallOneSpec == CallOneInit /\ [][CallOneNext]_vars

\* Call as a whole together with the invocation taken on its own.
FullSpec == (Init \/ CallOneInit) /\ [][Next \/ CallOneNext]_vars

(***************************************************************************)
(* Vocabulary of the properties                                            *)
(***************************************************************************)
\* Goroutines that were spawned.
Dispatched == {g \in Tasks : task[g].st # "idle"}

\* Number of times goroutine g's result left the channel.
TimesReceived(g) == Cardinality({k \in 1..Len(recv) : recv[k] = g})

\* Call returned from line 193 or 195, after the drain loop.
Drained == pc = "done" /\ \A g \in Tasks : task[g].st = "done"

\* The k-th result the coordinator received.
Received(k) == task[recv[k]].result

TransportErrors == {Err("NetError"), Err("ContextError")}

BadServerResponse == Err("BadServerResponse: Unknown ad unit code")

(***************************************************************************)
(* C1. Call never hangs: once the build phase is passed with N ad units,   *)
(* whatever the completion order and the outcomes of the calls, Call       *)
(* eventually returns, having received exactly N results from the channel. *)
(***************************************************************************)
C1_CallReturns == (pc = "dispatch") ~> (pc = "done" /\ Len(recv) = nUnits)

\* Two calls completing out of order, one failing and one bidding.
C1_Witness ==
    /\ pc = "done"
    /\ nUnits = 2
    /\ recv = <<1, 0>>
    /\ task[0].result.Error # Nil
    /\ task[1].result.Bid # Nil

(***************************************************************************)
(* C2. Every dispatched call sends exactly one result and the coordinator  *)
(* receives each exactly once: at any time a result has left the channel   *)
(* once if its goroutine is past its send and never otherwise, and when    *)
(* Call returns every dispatched goroutine is past its send.               *)
(***************************************************************************)
C2_ExactlyOnce ==
    /\ \A g \in Tasks : TimesReceived(g) = IF task[g].st = "done" THEN 1 ELSE 0
    /\ Len(recv) = Cardinality({g \in Tasks : task[g].st = "done"})
    /\ pc = "done" => \A g \in Dispatched : task[g].st = "done"

C2_Witness ==
    /\ pc = "done"
    /\ nUnits = 2
    /\ Dispatched = {0, 1}
    /\ recv = <<1, 0>>

(***************************************************************************)
(* C3. After all dispatched calls completed, Call returns the collected    *)
(* Bids and a nil error if at least one received result carried a Bid;     *)
(* otherwise it returns no bids and the error of the last received result  *)
(* that carried one, nil if none did.                                      *)
(***************************************************************************)
ReceivedWithBid == {k \in 1..Len(recv) : Received(k).Bid # Nil}

ReceivedWithError == {k \in 1..Len(recv) : Received(k).Error # Nil}

Last(S) == CHOOSE k \in S : \A j \in S : j <= k

C3_ReturnRule ==
    Drained =>
        IF ReceivedWithBid # {}
        THEN /\ ret.err = Nil
             /\ Len(ret.bids) = Cardinality(ReceivedWithBid)
             /\ \A k \in ReceivedWithBid : \E j \in 1..Len(ret.bids) : ret.bids[j] = Received(k).Bid
        ELSE /\ ret.bids = <<>>
             /\ ret.err = IF ReceivedWithError = {} THEN Nil
                          ELSE Received(Last(ReceivedWithError)).Error

\* No bid, two different errors: the later one is returned.
C3_Witness ==
    /\ Drained
    /\ nUnits = 2
    /\ ReceivedWithBid = {}
    /\ ReceivedWithError = {1, 2}
    /\ Received(1).Error # Received(2).Error

(***************************************************************************)
(* C4. A failure or no-bid of one call never hides a sibling: every        *)
(* dispatched call whose result carries a Bid has that Bid in what Call    *)
(* returns. With 2 ad units, a bid for unit 1 and status 204 for unit 2,   *)
(* Call returns exactly unit 1's Bid and a nil error.                      *)
(***************************************************************************)
TasksWithBid == {g \in Tasks : task[g].result.Bid # Nil}

BidFor1And204 ==
    /\ nUnits = 2
    /\ task[0].result.Bid # Nil
    /\ task[0].result.Bid.AdUnitCode = 1
    /\ task[1].result.StatusCode = 204

C4_SiblingsKept ==
    Drained =>
        /\ \A g \in TasksWithBid : \E j \in 1..Len(ret.bids) : ret.bids[j] = task[g].result.Bid
        /\ Len(ret.bids) = Cardinality(TasksWithBid)
        /\ BidFor1And204 => ret = [bids |-> <<task[0].result.Bid>>, err |-> Nil]

\* The end-to-end case, both units valid for banner only, the no-bid
\* received before the bid.
C4_Witness ==
    /\ Drained
    /\ BidFor1And204
    /\ gen = [m \in MediaTypes |-> IF m = "banner" THEN "imps" ELSE "noimps"]
    /\ recv = <<1, 0>>

(***************************************************************************)
(* C5. A bid for an unrecognized unit is never surfaced: a call that       *)
(* decodes a bid whose unit code has no bid id in the ad-unit table        *)
(* delivers no Bid and a BadServerResponse error; every Bid Call returns   *)
(* carries the bidder's code and the non-empty bid id the table gives for  *)
(* its unit code; with 1 ad unit and a response naming an unknown unit,    *)
(* Call returns no bids and a BadServerResponse error.                     *)
(***************************************************************************)
\* callOne decoded a bid out of the response recorded in result.
DecodedABid(result) ==
    /\ result.StatusCode = 200
    /\ result.ResponseBody.json
    /\ Len(result.ResponseBody.SeatBid) > 0
    /\ Len(result.ResponseBody.SeatBid[1]) > 0

DecodedUnknownUnit(result) ==
    /\ DecodedABid(result)
    /\ LookupBidID(nUnits, result.ResponseBody.SeatBid[1][1].ImpID) = ""

C5_UnknownUnitDropped ==
    /\ \A g \in Tasks :
         (task[g].st \in {"sending", "done"} /\ DecodedUnknownUnit(task[g].result))
            => (task[g].result.Bid = Nil /\ task[g].result.Error = BadServerResponse)
    /\ \A j \in 1..Len(bids) :
         /\ bids[j].BidderCode = BidderCode
         /\ bids[j].BidID # ""
         /\ bids[j].BidID = LookupBidID(nUnits, bids[j].AdUnitCode)
    /\ \A j \in 1..Len(ret.bids) :
         /\ ret.bids[j].BidderCode = BidderCode
         /\ ret.bids[j].BidID # ""
         /\ ret.bids[j].BidID = LookupBidID(nUnits, ret.bids[j].AdUnitCode)
    /\ (Drained /\ nUnits = 1 /\ DecodedUnknownUnit(task[0].result))
          => ret = [bids |-> <<>>, err |-> BadServerResponse]

C5_Witness ==
    /\ Drained
    /\ nUnits = 1
    /\ DecodedUnknownUnit(task[0].result)

(***************************************************************************)
(* C6. If an ad unit supports neither banner nor video (the builder fails  *)
(* with 'no supported impressions' for both), Call fails with a BadInput   *)
(* error and no concurrent call is dispatched.                             *)
(***************************************************************************)
BadInputErrors ==
    {Err("BadInput: No supported impressions"),
     Err("BadInput: Missing slot_tag param"),
     Err("BadInput: Invalid slot_tag param")}

\* Every configuration is well-formed, and some unit went through both
\* builds and got 'no supported impressions' from each.
UnitWithNoContent ==
    /\ nUnits >= 1
    /\ \A k \in 1..nUnits : unitCfg[k] = "nil"
    /\ \A m \in MediaTypes : gen[m] = "noimps"
    /\ \/ pc \in {"dispatch", "drain"}
       \/ pc \in {"build", "banner", "video", "done"} /\ i >= 1

C6_Claim ==
    UnitWithNoContent =>
        /\ Dispatched = {}
        /\ pc = "done" => ret.err \in BadInputErrors

(***************************************************************************)
(* C7. The number of concurrent calls dispatched equals the number of      *)
(* requests built, and each built request is sent to the endpoint exactly  *)
(* once.                                                                   *)
(***************************************************************************)
C7_Claim ==
    (pc = "drain" \/ Drained) =>
        /\ Cardinality(Dispatched) = reqIndex
        /\ \A k \in 1..reqIndex :
             Cardinality({g \in Dispatched : task[g].reqJSON = requests[k]}) = 1

(***************************************************************************)
(* C8. Configuration errors fail fast.                                     *)
(***************************************************************************)
\* Positions (1-based) of the ad units whose configuration is malformed.
Malformed == {k \in 1..nUnits : unitCfg[k] # "nil"}

FirstMalformed == CHOOSE k \in Malformed : \A j \in Malformed : k <= j

\* C8 as claimed: if the configuration of any ad unit, at any position, is
\* malformed, Call returns no bids and that unit's error, and no concurrent
\* call is dispatched for any unit.
C8_Claim ==
    \A k \in Malformed :
        /\ Dispatched = {}
        /\ pc = "done" => (ret.bids = <<>> /\ ErrKind(ret.err) = unitCfg[k])

\* C8 as amended: if the configuration of any ad unit is malformed, no
\* concurrent call is dispatched for any unit, and Call returns no bids and
\* the configuration error of the first malformed unit of the sequence, or
\* the encoding error of a request built for an earlier unit.
C8_FailFast ==
    Malformed # {} =>
        /\ Dispatched = {}
        /\ pc \notin {"dispatch", "drain"}
        /\ pc = "done" =>
             /\ ret.bids = <<>>
             /\ \/ ErrKind(ret.err) = unitCfg[FirstMalformed] /\ i + 1 = FirstMalformed
                \/ ErrKind(ret.err) = "EncodeError" /\ i + 1 < FirstMalformed

\* The second unit is malformed after a request was built for the first.
C8_Witness ==
    /\ pc = "done"
    /\ nUnits = 2
    /\ Malformed = {2}
    /\ reqIndex >= 1
    /\ ErrKind(ret.err) = unitCfg[2]
    /\ Dispatched = {}

(***************************************************************************)
(* C9. The slot parser accepts a blob if and only if its slot tag is       *)
(* present and splits on the delimiter into exactly two non-empty          *)
(* segments; every other blob is rejected with an error.                   *)
(***************************************************************************)
TwoNonEmptySegments(t) ==
    \E k \in 2..(Len(t) - 1) :
        /\ t[k] = "."
        /\ \A j \in 1..Len(t) : j # k => t[j] # "."

C9_Claim ==
    /\ pc \in {"banner", "video"} => TwoNonEmptySegments(params.SlotTag)
    /\ (pc = "done" /\ params.inScope /\ ErrKind(ret.err) # "EncodeError")
          => ~TwoNonEmptySegments(params.SlotTag)

(***************************************************************************)
(* C10. When ctx is cancelled or expires while calls are outstanding,      *)
(* every call that has not yet obtained its response completes with a      *)
(* transport error and no Bid, and the coordinator still receives one      *)
(* result for every dispatched call before Call returns.                   *)
(***************************************************************************)
CancelledCallFails ==
    \A g \in Tasks :
        (ctxDone /\ task[g].st = "calling" /\ task'[g].st # "calling")
           => /\ task'[g].st = "sending"
              /\ task'[g].result.Bid = Nil
              /\ task'[g].result.Error \in TransportErrors

C10_CancelContained ==
    /\ [][CancelledCallFails]_vars
    /\ [](pc = "done" /\ ctxDone => \A g \in Tasks : TimesReceived(g) = 1)
    /\ ctxDone ~> (pc = "done" /\ Len(recv) = nUnits)

\* Cancelled between two calls: one obtained its response, the other did
\* not, and both results were received.
C10_Witness ==
    /\ pc = "done"
    /\ ctxDone
    /\ nUnits = 2
    /\ Len(recv) = 2
    /\ \E g \in Tasks : task[g].result.Error = Err("ContextError")
    /\ \E g \in Tasks : task[g].result.StatusCode = 200

(***************************************************************************)
(* C11. callOne yields a no-bid result (no Bid and no error) for a         *)
(* response with status 204 whatever its body contains, and for a response *)
(* with status 200 whose decoded seat-bid list is empty or whose first     *)
(* seat's bid list is empty.                                               *)
(***************************************************************************)
\* The invocation taken on its own obtained a response and returned.
SoloAnswered == solo.st \in {"returned", "sending"} /\ solo.do.e = Nil

NoBidNoError(out) == out.result.Bid = Nil /\ out.err = Nil

\* The body decodes to a bid response whose first seat has a bid.
HasFirstBid(body) ==
    /\ body.json
    /\ Len(body.SeatBid) > 0
    /\ Len(body.SeatBid[1]) > 0

C11_NoBid ==
    SoloAnswered =>
        LET r == solo.do.resp
        IN  /\ r.StatusCode = 204 => NoBidNoError(solo.out)
            /\ (r.StatusCode = 200 /\ r.Body.json /\ ~HasFirstBid(r.Body))
                  => NoBidNoError(solo.out)

\* Status 204 with a body that holds a bid.
C11_Witness ==
    /\ SoloAnswered
    /\ solo.do.resp.StatusCode = 204
    /\ HasFirstBid(solo.do.resp.Body)
    /\ NoBidNoError(solo.out)

(***************************************************************************)
(* C12. For every response whose status is neither 200 nor 204, callOne    *)
(* yields no Bid and a RemoteError carrying the status code and the raw    *)
(* body, while the result still records status code and raw body; a        *)
(* request with 1 ad unit answered with HTTP 500 returns no bids and a     *)
(* RemoteError with status 500.                                            *)
(***************************************************************************)
IsRemoteError(e, status, body) ==
    /\ e # Nil
    /\ e.kind = "HTTP status"
    /\ e.status = status
    /\ e.body = body

C12_RemoteError ==
    /\ (SoloAnswered /\ solo.do.resp.StatusCode \notin {200, 204}) =>
          /\ solo.out.result.Bid = Nil
          /\ IsRemoteError(solo.out.err, solo.do.resp.StatusCode, solo.do.resp.Body)
          /\ solo.out.result.StatusCode = solo.do.resp.StatusCode
          /\ solo.out.result.ResponseBody = solo.do.resp.Body
    /\ \A g \in Tasks :
          (task[g].st \in {"sending", "done"} /\ task[g].result.StatusCode \notin {0, 200, 204}) =>
             /\ task[g].result.Bid = Nil
             /\ IsRemoteError(task[g].result.Error, task[g].result.StatusCode,
                              task[g].result.ResponseBody)
    /\ (Drained /\ nUnits = 1 /\ task[0].result.StatusCode = 500) =>
          /\ ret.bids = <<>>
          /\ IsRemoteError(ret.err, 500, task[0].result.ResponseBody)

\* The end-to-end case: one ad unit, HTTP 500.
C12_Witness ==
    /\ Drained
    /\ nUnits = 1
    /\ task[0].result.StatusCode = 500
    /\ ret.bids = <<>>

(***************************************************************************)
(* C13. When debug mode is requested, Call appends exactly one DebugTrace  *)
(* entry per dispatched call, in the order the results are received; when  *)
(* it is not requested, the caller's debug state is left unchanged.        *)
(***************************************************************************)
C13_DebugPerCall ==
    /\ Len(debug) = IF isDebug THEN Len(recv) ELSE 0
    /\ \A k \in 1..Len(debug) :
         /\ debug[k].RequestURI = URI
         /\ debug[k].StatusCode = Received(k).StatusCode
         /\ debug[k].ResponseBody = Received(k).ResponseBody
    /\ Drained => Len(debug) = IF isDebug THEN Cardinality(Dispatched) ELSE 0

\* Two calls traced in the order received, the second goroutine first.
C13_Witness ==
    /\ Drained
    /\ isDebug
    /\ nUnits = 2
    /\ recv = <<1, 0>>
    /\ Len(debug) = 2
    /\ debug[1].StatusCode # debug[2].StatusCode
    /\ Received(1).Error = Nil

(***************************************************************************)
(* C14. The Bids Call returns are in the order in which the results        *)
(* carrying them were received, not in ad-unit order: a Bid received       *)
(* before another precedes it in the returned collection.                  *)
(***************************************************************************)
\* The Bids of the first k received results, in the order received.
RECURSIVE BidsReceived(_)
BidsReceived(k) ==
    IF k = 0 THEN <<>>
    ELSE IF Received(k).Bid # Nil THEN Append(BidsReceived(k - 1), Received(k).Bid)
    ELSE BidsReceived(k - 1)

C14_CompletionOrder ==
    /\ bids = BidsReceived(Len(recv))
    /\ Drained => ret.bids = BidsReceived(Len(recv))

\* The second unit's Bid is received first and comes first.
C14_Witness ==
    /\ Drained
    /\ recv = <<1, 0>>
    /\ Len(ret.bids) = 2
    /\ ret.bids[1].AdUnitCode = 2
    /\ ret.bids[2].AdUnitCode = 1

(***************************************************************************)
(* C15. Each DebugTrace entry is internally consistent: the request body   *)
(* it records is the body sent by the same call whose status and response  *)
(* body it records, for every completion order.                            *)
(***************************************************************************)
C15_Claim ==
    \A k \in 1..Len(debug) :
        /\ debug[k].StatusCode = Received(k).StatusCode
        /\ debug[k].ResponseBody = Received(k).ResponseBody
        /\ debug[k].RequestBody = task[recv[k]].reqJSON

(***************************************************************************)
(* C16. For a fixed auction request and fixed endpoint responses per       *)
(* dispatched call, the set of returned Bids and the returned error are    *)
(* the same for every completion order of the concurrent calls.            *)
(***************************************************************************)
\* The completion orders of the dispatched calls.
Orders == {o \in [1..nUnits -> Tasks] : \A g \in Tasks : \E k \in 1..nUnits : o[k] = g}

\* Lines 173-190 run over the results in the order o, up to its k-th.
RECURSIVE DrainBids(_, _)
DrainBids(o, k) ==
    IF k = 0 THEN <<>> ELSE CollectBid(DrainBids(o, k - 1), task[o[k]].result)

RECURSIVE DrainErr(_, _)
DrainErr(o, k) ==
    IF k = 0 THEN Nil ELSE CollectErr(DrainErr(o, k - 1), task[o[k]].result)

\* What Call returns when the results are received in the order o.
OutcomeOf(o) == FinalResult(DrainBids(o, nUnits), DrainErr(o, nUnits))

BidSet(bs) == {bs[k] : k \in 1..Len(bs)}

ErrorsOfCalls == {task[g].result.Error : g \in Tasks} \ {Nil}

\* The claim as stated: bids and error alike are independent of the order.
C16_Claim ==
    Drained =>
        \A o1 \in Orders, o2 \in Orders :
            /\ BidSet(OutcomeOf(o1).bids) = BidSet(OutcomeOf(o2).bids)
            /\ OutcomeOf(o1).err = OutcomeOf(o2).err

\* C16 amended. The set of returned Bids is the same for every completion
\* order; the returned error is the same for every order when a Bid is
\* returned (it is then absent) or when the failed calls all report one and
\* the same error. What the run returns is the outcome of its own order.
C16_BidsAnyOrder ==
    Drained =>
        /\ \A o1 \in Orders, o2 \in Orders :
             /\ BidSet(OutcomeOf(o1).bids) = BidSet(OutcomeOf(o2).bids)
             /\ (OutcomeOf(o1).bids # <<>> \/ Cardinality(ErrorsOfCalls) <= 1)
                    => OutcomeOf(o1).err = OutcomeOf(o2).err
        /\ pc = "done" =>
             \E o \in Orders : /\ \A k \in 1..nUnits : o[k] = recv[k]
                               /\ ret = OutcomeOf(o)

\* Two different Bids returned in an order another completion order reverses.
C16_Witness ==
    /\ Drained
    /\ pc = "done"
    /\ nUnits = 2
    /\ Len(ret.bids) = 2
    /\ ret.bids[1] # ret.bids[2]
    /\ \E o \in Orders : /\ OutcomeOf(o).bids # ret.bids
                         /\ BidSet(OutcomeOf(o).bids) = BidSet(ret.bids)

(***************************************************************************)
(* C17. Every result delivered on the completion channel is in exactly one *)
(* of three states: a Bid and no error, an error and no Bid, or neither;   *)
(* no result carries both a Bid and an error, before the unit-code lookup  *)
(* or after it.                                                            *)
(***************************************************************************)
OneOfThree(bid, e) ==
    \/ bid # Nil /\ e = Nil
    \/ bid = Nil /\ e # Nil
    \/ bid = Nil /\ e = Nil

C17_OneOfThree ==
    /\ solo.st \in {"returned", "sending"} => OneOfThree(solo.out.result.Bid, solo.out.err)
    /\ solo.st = "sending" => OneOfThree(solo.result.Bid, solo.result.Error)
    /\ \A g \in Tasks :
         task[g].st \in {"sending", "done"}
             => OneOfThree(task[g].result.Bid, task[g].result.Error)

\* A decoded Bid for an unknown unit: on the channel the error has taken
\* the Bid's place.
C17_Witness ==
    /\ solo.st = "sending"
    /\ solo.out.result.Bid # Nil
    /\ solo.out.err = Nil
    /\ solo.result.Bid = Nil
    /\ solo.result.Error # Nil

(***************************************************************************)
(* C18. Each dispatched call contributes at most one Bid: of a status-200  *)
(* response with several seats or several bids only the first bid of the   *)
(* first seat becomes the Bid, and Call never returns more Bids than it    *)
(* dispatched calls.                                                       *)
(***************************************************************************)
C18_AtMostOneBid ==
    /\ (/\ solo.st \in {"returned", "sending"}
        /\ solo.out.result.Bid # Nil)
           => /\ solo.do.resp.StatusCode = 200
              /\ solo.out.result.Bid.AdUnitCode = solo.do.resp.Body.SeatBid[1][1].ImpID
    /\ Len(bids) = Cardinality(ReceivedWithBid)
    /\ Len(bids) <= Len(recv)
    /\ Len(ret.bids) <= Cardinality(Dispatched)

\* Two seats, the first with two bids, all for different units: the Bid is
\* the first bid of the first seat.
C18_Witness ==
    /\ solo.st = "returned"
    /\ solo.do.e = Nil
    /\ solo.do.resp.StatusCode = 200
    /\ solo.do.resp.Body.json
    /\ Len(solo.do.resp.Body.SeatBid) = 2
    /\ Len(solo.do.resp.Body.SeatBid[1]) = 2
    /\ solo.do.resp.Body.SeatBid[1][1].ImpID # solo.do.resp.Body.SeatBid[1][2].ImpID
    /\ solo.do.resp.Body.SeatBid[1][1].ImpID # solo.do.resp.Body.SeatBid[2][1].ImpID
    /\ solo.out.result.Bid # Nil
    /\ solo.out.result.Bid.AdUnitCode = solo.do.resp.Body.SeatBid[1][1].ImpID

(***************************************************************************)
(* C19. In the build phase a Request Builder failure other than the        *)
(* BadInput 'no supported impressions' condition aborts the whole Call at  *)
(* once: Call returns that error, processes no further unit and            *)
(* dispatches no call.                                                     *)
(***************************************************************************)
\* The banner build of the first unit has run and failed in the generic
\* builder (lines 87-91), which is not the 'no supported impressions' case.
BannerBuildFailed ==
    /\ nUnits >= 1
    /\ unitCfg[1] = "nil"
    /\ gen["banner"] = "error"
    /\ ~(pc \in {"build", "banner"} /\ i = 0 /\ Dispatched = {} /\ ret = NoRet)

C19_Claim ==
    BannerBuildFailed =>
        /\ pc = "done"
        /\ ret.err = Err("GenericError")
        /\ ret.bids = <<>>
        /\ Dispatched = {}

(***************************************************************************)
(* C20. No index into the flat request sequence is ever out of range: with *)
(* N ad units the sequence has 2*N slots, 0 <= reqIndex <= 2*N throughout  *)
(* the build phase, every write is at an index < 2*N, and every index read *)
(* at dispatch and in the drain loop is < N <= 2*N.                        *)
(***************************************************************************)
C20_InRange ==
    /\ Len(requests) = 2 * nUnits
    /\ 0 <= reqIndex /\ reqIndex <= 2 * nUnits
    /\ pc \in {"banner", "video"} => reqIndex < Len(requests)
    /\ (pc = "dispatch" /\ i < NumDispatch) => (i < nUnits /\ i < Len(requests))
    /\ (pc = "drain" /\ i < NumDrain) => (i < nUnits /\ i < Len(requests))
    /\ nUnits <= 2 * nUnits

\* Every unit yielded two requests: the last write was at the last slot.
C20_Witness ==
    /\ pc = "dispatch"
    /\ nUnits = MaxUnits
    /\ reqIndex = 2 * nUnits
    /\ requests[2 * nUnits] # EmptyBuf

====
